---------------------------- MODULE Spec2Model ----------------------------
(***************************************************************************)
(* Model of scripts/discover_nano_services.py: the README updater that     *)
(* searches GitHub for "nano" AI repositories, refreshes the star counts   *)
(* of the rows already listed between two markers, appends rows for the    *)
(* newly found repositories and writes the section back, sorted by stars.  *)
(*                                                                         *)
(* Text is modelled as TLA+ strings, character by character: indices are   *)
(* 0-based and slices are half-open, as in Python.                         *)
(***************************************************************************)
EXTENDS Integers, Sequences, FiniteSets, TLC

(***************************************************************************)
(* Program constants (lines 11-36).                                        *)
(***************************************************************************)
MARKER_START == "<!-- NANO_LIST_START -->"
MARKER_END == "<!-- NANO_LIST_END -->"
MIN_STARS == 1000

SEARCH_QUERIES ==
    << "nano in:name topic:ai",
       "nano in:name topic:machine-learning",
       "nano in:name topic:llm",
       "nano in:name topic:deep-learning",
       "nano in:name topic:gpt",
       "nano in:name topic:chatbot",
       "nano in:name topic:nlp",
       "nano in:name topic:agent",
       "nano in:name topic:neural-network",
       "nano in:name topic:transformer",
       "nanoGPT",
       "nanochat",
       "nanobot",
       "nanobrowser",
       "nanocoder",
       "nanoflow",
       "nanotron" >>

\* build_table_row: a description longer than DESC_MAX is cut to DESC_KEEP
\* characters and "..." is appended.
DESC_MAX == 100
DESC_KEEP == 97

\* The literal prefix of the regular expression of lines 65 and 119.
URL_PREFIX == "https://github.com/"

\* The table header and separator written by main (line 200).
TABLE_HEADER == "| Name | Description | Stars |\n|------|-------------|-------|\n"

(***************************************************************************)
(* Python's string primitives, as the script uses them.                    *)
(***************************************************************************)
SetMin(S) == CHOOSE i \in S : \A j \in S : i <= j
SetMax(S) == CHOOSE i \in S : \A j \in S : i >= j

\* The characters m..n of s (1-based, inclusive), cut to what s holds.
Sub(s, m, n) ==
    LET lo == IF m < 1 THEN 1 ELSE m
        hi == IF n > Len(s) THEN Len(s) ELSE n
    IN  IF lo > hi THEN "" ELSE SubSeq(s, lo, hi)

\* s[i], 0-based ("" outside s).
CharAt(s, i) == Sub(s, i + 1, i + 1)

\* One bound of a slice: a negative index counts from the end, and the result
\* is clamped to 0..len(s).
SliceIndex(s, i) ==
    LET j == IF i < 0 THEN i + Len(s) ELSE i
    IN  IF j < 0 THEN 0 ELSE IF j > Len(s) THEN Len(s) ELSE j

\* s[a:b]
Slice(s, a, b) == Sub(s, SliceIndex(s, a) + 1, SliceIndex(s, b))

\* s[a:]
SliceFrom(s, a) == Sub(s, SliceIndex(s, a) + 1, Len(s))

\* s[:b]
SliceTo(s, b) == Sub(s, 1, SliceIndex(s, b))

\* s.find(pat): the lowest 0-based index where pat occurs, or -1.
Find(s, pat) ==
    LET hits == { i \in 0..(Len(s) - Len(pat)) : SubSeq(s, i + 1, i + Len(pat)) = pat }
    IN  IF hits = {} THEN -1 ELSE SetMin(hits)

\* s.startswith(pat)
StartsWith(s, pat) == Len(s) >= Len(pat) /\ SubSeq(s, 1, Len(pat)) = pat

EndsWith(s, pat) == Len(s) >= Len(pat) /\ SubSeq(s, Len(s) - Len(pat) + 1, Len(s)) = pat

Whitespace == {" ", "\n", "\t", "\r"}

\* s.strip()
Strip(s) ==
    LET keep == { i \in 1..Len(s) : SubSeq(s, i, i) \notin Whitespace }
    IN  IF keep = {} THEN "" ELSE SubSeq(s, SetMin(keep), SetMax(keep))

\* s.rstrip(c) for a single character c.
RStripChar(s, c) ==
    LET keep == { i \in 1..Len(s) : SubSeq(s, i, i) # c }
    IN  IF keep = {} THEN "" ELSE SubSeq(s, 1, SetMax(keep))

\* s.split(sep) for a single character sep: the parts between the
\* occurrences of sep, in order (always at least one part).
Split(s, sep) ==
    LET cuts == { i \in 1..Len(s) : SubSeq(s, i, i) = sep }
        n == Cardinality(cuts)
        \* the k-th occurrence of sep; 0 before the first, Len(s)+1 after the last
        cut(k) == IF k = 0 THEN 0
                  ELSE IF k = n + 1 THEN Len(s) + 1
                  ELSE CHOOSE i \in cuts : Cardinality({ j \in cuts : j <= i }) = k
    IN  [ k \in 1..(n + 1) |-> SubSeq(s, cut(k - 1) + 1, cut(k) - 1) ]

\* sep.join(parts)
RECURSIVE Join(_, _)
Join(sep, parts) ==
    IF Len(parts) = 0 THEN ""
    ELSE IF Len(parts) = 1 THEN parts[1]
    ELSE parts[1] \o sep \o Join(sep, Tail(parts))

UpperLetters == "ABCDEFGHIJKLMNOPQRSTUVWXYZ"
LowerLetters == "abcdefghijklmnopqrstuvwxyz"
Digits == "0123456789"

CharSet(alphabet) == { SubSeq(alphabet, i, i) : i \in 1..Len(alphabet) }

UpperSet == CharSet(UpperLetters)
DigitSet == CharSet(Digits)

\* The lower-case letter of each upper-case letter.
LowerOf ==
    [ c \in UpperSet |->
        LET i == CHOOSE k \in 1..Len(UpperLetters) : SubSeq(UpperLetters, k, k) = c
        IN  SubSeq(LowerLetters, i, i) ]

LowerChar(c) == IF c \in UpperSet THEN LowerOf[c] ELSE c

\* s.lower()
RECURSIVE Lower(_)
Lower(s) ==
    IF Len(s) = 0 THEN ""
    ELSE IF Len(s) = 1 THEN LowerChar(s)
    ELSE LET h == Len(s) \div 2
         IN  Lower(SubSeq(s, 1, h)) \o Lower(SubSeq(s, h + 1, Len(s)))

\* s.replace(old, new) for a single character old.
RECURSIVE Replace(_, _, _)
Replace(s, old, new) ==
    IF Len(s) = 0 THEN ""
    ELSE IF Len(s) = 1 THEN (IF s = old THEN new ELSE s)
    ELSE LET h == Len(s) \div 2
         IN  Replace(SubSeq(s, 1, h), old, new) \o Replace(SubSeq(s, h + 1, Len(s)), old, new)

DigitVal(c) == (CHOOSE k \in 1..Len(Digits) : SubSeq(Digits, k, k) = c) - 1

\* str(n) for an integer n.
RECURSIVE NatToStr(_)
NatToStr(n) ==
    IF n < 10 THEN SubSeq(Digits, n + 1, n + 1)
    ELSE NatToStr(n \div 10) \o SubSeq(Digits, (n % 10) + 1, (n % 10) + 1)

IntToStr(n) == IF n < 0 THEN "-" \o NatToStr(0 - n) ELSE NatToStr(n)

\* int(s) accepts: surrounding whitespace, one optional sign, then decimal
\* digits in which single underscores may separate digits.
IsIntBody(b) ==
    /\ Len(b) > 0
    /\ \A i \in 1..Len(b) : SubSeq(b, i, i) \in DigitSet \/ SubSeq(b, i, i) = "_"
    /\ SubSeq(b, 1, 1) # "_"
    /\ SubSeq(b, Len(b), Len(b)) # "_"
    /\ \A i \in 1..(Len(b) - 1) : ~(SubSeq(b, i, i) = "_" /\ SubSeq(b, i + 1, i + 1) = "_")

IntSign(t) == Len(t) > 0 /\ SubSeq(t, 1, 1) \in {"+", "-"}

IntBody(s) ==
    LET t == Strip(s)
    IN  IF IntSign(t) THEN SubSeq(t, 2, Len(t)) ELSE t

\* Whether int(s) returns (TRUE) or raises ValueError (FALSE).
IsInt(s) == IsIntBody(IntBody(s))

RECURSIVE DigitsValue(_)
DigitsValue(b) ==
    IF Len(b) = 0 THEN 0
    ELSE LET c == SubSeq(b, Len(b), Len(b))
             rest == SubSeq(b, 1, Len(b) - 1)
         IN  IF c = "_" THEN DigitsValue(rest) ELSE DigitsValue(rest) * 10 + DigitVal(c)

\* The value of int(s), for s with IsInt(s).
IntValue(s) ==
    LET t == Strip(s)
        v == DigitsValue(IntBody(s))
    IN  IF IntSign(t) /\ SubSeq(t, 1, 1) = "-" THEN 0 - v ELSE v

(***************************************************************************)
(* The regular expression https://github\.com/[\w\-\.]+/[\w\-\.]+          *)
(* (lines 65 and 119).  "/" is outside the character class, so a match is  *)
(* the prefix, a maximal run of class characters, "/", and a second        *)
(* maximal run.                                                            *)
(***************************************************************************)
UrlCharSet == CharSet(LowerLetters) \cup UpperSet \cup DigitSet \cup {"_", "-", "."}

IsUrlChar(c) == c \in UrlCharSet

\* The number of class characters of s starting at 0-based index i.
RunLen(s, i) ==
    LET stops == { j \in i..(Len(s) - 1) : ~IsUrlChar(CharAt(s, j)) }
    IN  IF stops = {} THEN (IF Len(s) > i THEN Len(s) - i ELSE 0) ELSE SetMin(stops) - i

\* The length of the match of the pattern at 0-based index i of s, or 0.
UrlMatchLen(s, i) ==
    IF Sub(s, i + 1, i + Len(URL_PREFIX)) # URL_PREFIX THEN 0
    ELSE LET o == i + Len(URL_PREFIX)
             n1 == RunLen(s, o)
             n2 == RunLen(s, o + n1 + 1)
         IN  IF n1 > 0 /\ CharAt(s, o + n1) = "/" /\ n2 > 0
             THEN Len(URL_PREFIX) + n1 + 1 + n2
             ELSE 0

\* The 0-based start indices of the matches of the pattern in s.
UrlMatchStarts(s) ==
    { i \in { j \in 0..(Len(s) - Len(URL_PREFIX)) : SubSeq(s, j + 1, j + Len(URL_PREFIX)) = URL_PREFIX } :
        UrlMatchLen(s, i) > 0 }

\* match.group().lower().rstrip("/") of the match at i (lines 72 and 121).
CanonicalMatch(s, i) == RStripChar(Lower(SubSeq(s, i + 1, i + UrlMatchLen(s, i))), "/")

(***************************************************************************)
(* Repository records, as the search API returns them.  A description is   *)
(* <<>> for JSON null and <<text>> otherwise.                              *)
(***************************************************************************)
DescriptionOrEmpty(d) == IF d = <<>> THEN "" ELSE d[1]

\* A variant that compares URLs case-sensitively.
CanonicalUrlCaseSensitive(url) == RStripChar(url, "/")

\* repo["html_url"].lower().rstrip("/") (line 172)
CanonicalUrl(url) == RStripChar(Lower(url), "/")

(***************************************************************************)
(* parse_existing_entries (lines 62-73)                                    *)
(***************************************************************************)
parse_existing_entries(readme_content) ==
    LET start_idx == Find(readme_content, MARKER_START)
        end_idx == Find(readme_content, MARKER_END)
        section == Slice(readme_content, start_idx, end_idx)
    IN  IF start_idx = -1 \/ end_idx = -1 THEN {}
        ELSE { CanonicalMatch(section, i) : i \in UrlMatchStarts(section) }

(***************************************************************************)
(* build_table_row (lines 76-84)                                           *)
(***************************************************************************)
\* A variant that cuts to DESC_MAX characters before the dots are appended.
RenderDescriptionLateCut(d) ==
    LET description == Strip(Replace(DescriptionOrEmpty(d), "|", "-"))
    IN  IF Len(description) > DESC_MAX
        THEN SliceTo(description, DESC_MAX) \o "..."
        ELSE description

RenderDescription(d) ==
    LET description == Strip(Replace(DescriptionOrEmpty(d), "|", "-"))
    IN  IF Len(description) > DESC_MAX
        THEN SliceTo(description, DESC_KEEP) \o "..."
        ELSE description

build_table_row(repo) ==
    "| [" \o repo.name \o "](" \o repo.html_url \o ") | "
         \o RenderDescription(repo.description)
         \o " | " \o IntToStr(repo.stargazers_count) \o " |"

(***************************************************************************)
(* parse_table_rows (lines 87-102)                                         *)
(***************************************************************************)
IsDataLine(line) ==
    ~(StartsWith(line, "| Name") \/ StartsWith(line, "|---") \/ ~StartsWith(line, "|"))

parse_table_rows(readme_content) ==
    LET start_idx == Find(readme_content, MARKER_START)
        end_idx == Find(readme_content, MARKER_END)
        section == Strip(Slice(readme_content, start_idx + Len(MARKER_START), end_idx))
        lines == Split(section, "\n")
        stripped == [ k \in 1..Len(lines) |-> Strip(lines[k]) ]
    IN  IF start_idx = -1 \/ end_idx = -1 THEN <<>>
        ELSE SelectSeq(stripped, IsDataLine)

(***************************************************************************)
(* extract_stars_from_row (lines 105-114)                                  *)
(***************************************************************************)
extract_stars_from_row(row) ==
    LET parts == Split(row, "|")
    IN  IF Len(parts) >= 4
        THEN LET stars_str == Replace(Strip(parts[4]), ",", "")
             IN  IF IsInt(stars_str) THEN IntValue(stars_str) ELSE 0
        ELSE 0

(***************************************************************************)
(* update_row_stars (lines 117-130).  repos_by_url is a function from      *)
(* canonical URLs to repository records.                                   *)
(***************************************************************************)
HasUrl(row) == UrlMatchStarts(row) # {}

\* re.search: the leftmost match, canonicalised.
RowUrl(row) == CanonicalMatch(row, SetMin(UrlMatchStarts(row)))

\* A variant that writes the stars one column to the left.
ReplaceStarsWrongColumn(parts, new_stars) ==
    [ k \in 1..Len(parts) |-> IF k = 3 THEN " " \o IntToStr(new_stars) \o " " ELSE parts[k] ]

ReplaceStars(parts, new_stars) ==
    [ k \in 1..Len(parts) |-> IF k = 4 THEN " " \o IntToStr(new_stars) \o " " ELSE parts[k] ]

update_row_stars(row, repos_by_url) ==
    LET url_match == HasUrl(row)
        url == RowUrl(row)
        parts == Split(row, "|")
    IN  IF url_match /\ url \in DOMAIN repos_by_url /\ Len(parts) >= 5
        THEN Join("|", ReplaceStars(parts, repos_by_url[url].stargazers_count))
        ELSE row

(***************************************************************************)
(* set_github_output (lines 133-141): the text appended to the output      *)
(* file when GITHUB_OUTPUT names one.                                      *)
(***************************************************************************)
set_github_output(key, value) ==
    IF Find(value, "\n") # -1
    THEN key \o "<<EOF\n" \o value \o "\nEOF\n"
    ELSE key \o "=" \o value \o "\n"

(***************************************************************************)
(* search_repos (lines 46-59).  A response is [status, items]: items is    *)
(* the "items" array of the JSON body.                                     *)
(***************************************************************************)
\* A variant without the early return for 403.
search_repos_raises_on_403(resp) == resp.status >= 400 /\ resp.status < 600

\* A variant that never raises.
search_repos_never_raises(resp) == FALSE

\* resp.raise_for_status() raises for the 4xx and 5xx codes; 403 has
\* returned before it is reached.
search_repos_raises(resp) ==
    resp.status # 403 /\ resp.status >= 400 /\ resp.status < 600

\* The list search_repos returns when it does not raise.
search_repos(resp) ==
    IF resp.status = 403 THEN <<>> ELSE resp.items

(***************************************************************************)
(* main, lines 155-162: all_repos is a dict, which keeps insertion order;  *)
(* it is modelled as the sequence of its [key, repo] entries.              *)
(***************************************************************************)
Keys(all_repos) == { all_repos[k].key : k \in 1..Len(all_repos) }

\* A variant in which a later occurrence replaces the stored record.
MergeRepoLastWins(all_repos, repo) ==
    LET full_name == Lower(repo.full_name)
    IN  IF full_name \notin Keys(all_repos)
        THEN Append(all_repos, [key |-> full_name, repo |-> repo])
        ELSE [ k \in 1..Len(all_repos) |->
                 IF all_repos[k].key = full_name
                 THEN [key |-> full_name, repo |-> repo]
                 ELSE all_repos[k] ]

\* if full_name not in all_repos: all_repos[full_name] = repo
MergeRepo(all_repos, repo) ==
    LET full_name == Lower(repo.full_name)
    IN  IF full_name \notin Keys(all_repos)
        THEN Append(all_repos, [key |-> full_name, repo |-> repo])
        ELSE all_repos

\* for repo in repos: ...
RECURSIVE MergeRepos(_, _)
MergeRepos(all_repos, repos) ==
    IF Len(repos) = 0 THEN all_repos
    ELSE MergeRepos(MergeRepo(all_repos, Head(repos)), Tail(repos))

(***************************************************************************)
(* main, lines 168-180: the filter.                                        *)
(***************************************************************************)
\* A variant that does not test the archived flag.
IsNewIgnoringArchived(repo, existing_urls) ==
    /\ ~repo.fork
    /\ CanonicalUrl(repo.html_url) \notin existing_urls

IsNew(repo, existing_urls) ==
    /\ ~repo.fork
    /\ ~repo.archived
    /\ CanonicalUrl(repo.html_url) \notin existing_urls

\* new_repos before the sort of line 183, in the order of all_repos.
FilterNew(all_repos, existing_urls) ==
    LET repos == [ k \in 1..Len(all_repos) |-> all_repos[k].repo ]
        Keep(repo) == IsNew(repo, existing_urls)
    IN  SelectSeq(repos, Keep)

\* repos_by_url[url] = repo for every entry in turn: a later entry with the
\* same url overwrites an earlier one.
ReposByUrl(all_repos) ==
    LET url == [ k \in 1..Len(all_repos) |-> CanonicalUrl(all_repos[k].repo.html_url) ]
        last(u) == SetMax({ k \in 1..Len(all_repos) : url[k] = u })
    IN  [ u \in { url[k] : k \in 1..Len(all_repos) } |-> all_repos[last(u)].repo ]

(***************************************************************************)
(* list.sort(key=..., reverse=True) (lines 183 and 197): a stable sort,    *)
(* descending: an item goes after those with a greater key and after the   *)
(* earlier items with an equal key.                                        *)
(***************************************************************************)
SortDescending(items, keys) ==
    LET n == Len(items)
        rank(i) == 1 + Cardinality({ j \in 1..n : keys[j] > keys[i] \/ (keys[j] = keys[i] /\ j < i) })
    IN  [ r \in 1..n |-> items[CHOOSE i \in 1..n : rank(i) = r] ]

SortReposByStars(repos) ==
    SortDescending(repos, [ k \in 1..Len(repos) |-> repos[k].stargazers_count ])

\* A variant that sorts ascending (reverse=True left out).
SortRowsByStarsAscending(rows) ==
    SortDescending(rows, [ k \in 1..Len(rows) |-> 0 - extract_stars_from_row(rows[k]) ])

SortRowsByStars(rows) ==
    SortDescending(rows, [ k \in 1..Len(rows) |-> extract_stars_from_row(rows[k]) ])

\* new_repos after line 183.
NewRepos(all_repos, existing_urls) == SortReposByStars(FilterNew(all_repos, existing_urls))

(***************************************************************************)
(* main, lines 189-207: the rows of the new section and the new document.  *)
(***************************************************************************)
UpdatedRows(existing_rows, all_repos) ==
    LET repos_by_url == ReposByUrl(all_repos)
    IN  [ k \in 1..Len(existing_rows) |-> update_row_stars(existing_rows[k], repos_by_url) ]

NewRows(new_repos) == [ k \in 1..Len(new_repos) |-> build_table_row(new_repos[k]) ]

AllRows(existing_rows, all_repos, new_repos) ==
    SortRowsByStars(UpdatedRows(existing_rows, all_repos) \o NewRows(new_repos))

NewSection(all_rows) ==
    MARKER_START \o "\n" \o TABLE_HEADER \o Join("\n", all_rows) \o "\n" \o MARKER_END

\* Lines 205-207.  find() gives -1 for a missing marker and the slices take
\* that index as it is.
NewReadme(readme_content, new_section) ==
    LET start_idx == Find(readme_content, MARKER_START)
        end_idx == Find(readme_content, MARKER_END) + Len(MARKER_END)
    IN  SliceTo(readme_content, start_idx) \o new_section \o SliceFrom(readme_content, end_idx)

(***************************************************************************)
(* main, lines 216-221: the text of the run summary.                       *)
(***************************************************************************)
NewServicesList(new_repos) ==
    Join("\n", [ k \in 1..Len(new_repos) |->
        "- [" \o new_repos[k].full_name \o "](" \o new_repos[k].html_url \o ") ("
              \o IntToStr(new_repos[k].stargazers_count) \o " stars)" ])

RunSummary(new_repos) ==
    set_github_output("new_count", IntToStr(Len(new_repos)))
        \o set_github_output("new_services",
               IF NewServicesList(new_repos) # "" THEN NewServicesList(new_repos) ELSE "None")

(***************************************************************************)
(* Inputs.  The search API returns repositories with at least MIN_STARS    *)
(* stars (the "stars:>=" qualifier of line 49), each with                  *)
(* html_url = https://github.com/<full_name>.                              *)
(***************************************************************************)
\* How many items of a response, and how many lines of a section, the
\* enumerated inputs keep.
MaxItems == 2
MaxDocLines == 2
\* The longest description padding enumerated for build_table_row.
MaxDescLen == 103

Take(seq, n) == IF Len(seq) <= n THEN seq ELSE SubSeq(seq, 1, n)

Repo(full_name, description, stargazers_count, fork, archived) ==
    [ full_name |-> full_name,
      name |-> SliceFrom(full_name, Find(full_name, "/") + 1),
      html_url |-> URL_PREFIX \o full_name,
      description |-> description,
      stargazers_count |-> stargazers_count,
      fork |-> fork,
      archived |-> archived ]

RepoFoo == Repo("a/foo", <<"fresh text">>, 1600, FALSE, FALSE)
\* The same repository, seen by a later query: renamed in case, one star more.
RepoFooLater == Repo("A/Foo", <<"fresh text">>, 1601, FALSE, FALSE)
RepoBar == Repo("b/bar", <<"B | C">>, 1700, FALSE, FALSE)
RepoNul == Repo("e/nul", <<>>, 1700, FALSE, FALSE)
RepoFork == Repo("c/frk", <<"a fork">>, 1900, TRUE, FALSE)
\* Archived upstream, and listed in some documents.
RepoArchived == Repo("C/Baz", <<"old">>, 1800, FALSE, TRUE)
RepoZed == Repo("z/z", <<"zed">>, 1300, FALSE, FALSE)
RepoQ == Repo("q/q", <<"q">>, 1010, FALSE, FALSE)

\* Responses, each sorted by stars as the request asks (lines 50-51).
ItemsBarFoo == Take(<<RepoBar, RepoFoo, RepoZed>>, MaxItems)
ItemsFooLater == Take(<<RepoFooLater, RepoQ>>, MaxItems)
ItemsForkArchived == Take(<<RepoFork, RepoArchived, RepoBar>>, MaxItems)
ItemsNulBar == Take(<<RepoNul, RepoBar, RepoFoo>>, MaxItems)

\* The two queries of SEARCH_QUERIES that have results upstream.
HitQueries == <<"nano in:name topic:llm", "nanoGPT">>

UpstreamOf(a, b) ==
    [ q \in 1..Len(SEARCH_QUERIES) |->
        IF SEARCH_QUERIES[q] = HitQueries[1] THEN a
        ELSE IF SEARCH_QUERIES[q] = HitQueries[2] THEN b
        ELSE <<>> ]

Upstreams ==
    { UpstreamOf(<<>>, <<>>),
      UpstreamOf(ItemsBarFoo, ItemsFooLater),
      UpstreamOf(ItemsFooLater, ItemsBarFoo),
      UpstreamOf(ItemsForkArchived, ItemsNulBar),
      UpstreamOf(ItemsNulBar, ItemsBarFoo),
      UpstreamOf(<<>>, ItemsForkArchived) }

\* Lines of an existing section.
RowFoo == "| [foo](https://github.com/a/foo) | desc | 1500 |"
RowBaz == "| [Baz](https://github.com/C/Baz/) | x | 1,200 |"
RowFooAgain == "| [foo](https://github.com/A/foo) | dup | 1050 |"
RowOpen == "| [q](https://github.com/q/q) | no end | 1009"
RowNoStars == "| [z](https://github.com/z/z) | p | n/a |"
RowBarWide == "| [bar](https://github.com/b/bar) | B | C | 1100 |"
NoteLine == "See https://github.com/b/bar"

SectionBodies ==
    { Take(b, MaxDocLines) :
        b \in { <<>>,
                <<RowFoo>>,
                <<RowBaz, RowFoo, RowNoStars>>,
                <<RowFoo, RowFooAgain, RowBaz>>,
                <<RowOpen, RowNoStars, RowFoo>>,
                <<NoteLine, RowFoo, RowBarWide>> } }

DocPrefix == "# T\n\n"
DocSuffix == "\nbye\n"

Table(body) == TABLE_HEADER \o Join("\n", body) \o "\n"

WellFormedDoc(body) ==
    DocPrefix \o MARKER_START \o "\n" \o Table(body) \o MARKER_END \o DocSuffix

\* Documents whose markers are missing or out of order.
MalformedDocs ==
    { DocPrefix \o Table(<<RowFoo>>) \o DocSuffix,
      DocPrefix \o Table(<<RowFoo>>) \o MARKER_END \o DocSuffix,
      DocPrefix \o MARKER_START \o "\n" \o Table(<<RowFoo>>) \o DocSuffix,
      DocPrefix \o MARKER_END \o "\n" \o Table(<<RowFoo>>) \o MARKER_START \o DocSuffix }

Documents == { WellFormedDoc(b) : b \in SectionBodies } \cup MalformedDocs

\* The status codes of the responses: success, rate limit, other failures.
HTTP_OK == 200
HTTP_FORBIDDEN == 403
FailureStatuses == {404, 500}

(***************************************************************************)
(* State.                                                                  *)
(***************************************************************************)
VARIABLES
    readme,            \* the content of the README file
    github_output,     \* the content of the GITHUB_OUTPUT file of this run
    upstream,          \* the items the API has for each query
    run,               \* "first" or "second": which run of the script this is
    pc,                \* where main is: start, searching, emitting, done, aborted
    readme_content,    \* main's readme_content
    existing_urls,     \* main's existing_urls
    existing_rows,     \* main's existing_rows
    query_idx,         \* the index in SEARCH_QUERIES of the next query
    resp,              \* the response to the last request
    all_repos,         \* main's all_repos
    new_repos,         \* main's new_repos
    all_rows,          \* main's all_rows
    new_section,       \* main's new_section
    issued,            \* the queries sent by this run, in order
    rate_limited,      \* whether a query of this run was rate-limited
    prev_section,      \* the section the first run wrote
    prev_rate_limited, \* whether a query of the first run was rate-limited
    call               \* a single call of a function: its arguments and result

vars == << readme, github_output, upstream, run, pc, readme_content, existing_urls,
           existing_rows, query_idx, resp, all_repos, new_repos, all_rows, new_section,
           issued, rate_limited, prev_section, prev_rate_limited, call >>

NoResponse == [status |-> 0, items |-> <<>>]
NoCall == [fn |-> "none"]

\* main's local state before its first line.
Fresh ==
    /\ pc = "start"
    /\ readme_content = ""
    /\ existing_urls = {}
    /\ existing_rows = <<>>
    /\ query_idx = 1
    /\ resp = NoResponse
    /\ all_repos = <<>>
    /\ new_repos = <<>>
    /\ all_rows = <<>>
    /\ new_section = ""
    /\ issued = <<>>
    /\ rate_limited = FALSE
    /\ github_output = ""

Init ==
    /\ readme \in Documents
    /\ upstream \in Upstreams
    /\ run = "first"
    /\ Fresh
    /\ prev_section = ""
    /\ prev_rate_limited = FALSE
    /\ call = NoCall

(***************************************************************************)
(* main (lines 144-221), one action per file access and per request.       *)
(***************************************************************************)
\* Lines 146-152.
ReadReadme ==
    /\ pc = "start"
    /\ readme_content' = readme
    /\ existing_urls' = parse_existing_entries(readme)
    /\ existing_rows' = parse_table_rows(readme)
    /\ pc' = "searching"
    /\ UNCHANGED << readme, github_output, upstream, run, query_idx, resp, all_repos,
                    new_repos, all_rows, new_section, issued, rate_limited,
                    prev_section, prev_rate_limited, call >>

\* Lines 156-164: the request of one query, answered with `status`.
IssueQuery(status) ==
    /\ query_idx <= Len(SEARCH_QUERIES)
    /\ LET response == [ status |-> status,
                         items |-> IF status = HTTP_OK THEN upstream[query_idx] ELSE <<>> ]
       IN  /\ resp' = response
           /\ issued' = Append(issued, SEARCH_QUERIES[query_idx])
           /\ rate_limited' = (rate_limited \/ status = HTTP_FORBIDDEN)
           /\ IF search_repos_raises(response)
              THEN /\ pc' = "aborted"
                   /\ UNCHANGED << all_repos, query_idx >>
              ELSE /\ all_repos' = MergeRepos(all_repos, search_repos(response))
                   /\ query_idx' = query_idx + 1
                   /\ pc' = "searching"
    /\ UNCHANGED << readme, github_output, upstream, run, readme_content, existing_urls,
                    existing_rows, new_repos, all_rows, new_section,
                    prev_section, prev_rate_limited, call >>

SearchSucceeds ==
    /\ pc = "searching"
    /\ IssueQuery(HTTP_OK)

SearchRateLimited ==
    /\ pc = "searching"
    /\ IssueQuery(HTTP_FORBIDDEN)

SearchFails ==
    /\ pc = "searching"
    /\ \E status \in FailureStatuses : IssueQuery(status)

\* Lines 168-211: filter, refresh, build, sort, splice and write.
UpdateReadme ==
    /\ pc = "searching"
    /\ query_idx > Len(SEARCH_QUERIES)
    /\ new_repos' = NewRepos(all_repos, existing_urls)
    /\ all_rows' = AllRows(existing_rows, all_repos, new_repos')
    /\ new_section' = NewSection(all_rows')
    /\ readme' = NewReadme(readme_content, new_section')
    /\ pc' = "emitting"
    /\ UNCHANGED << github_output, upstream, run, readme_content, existing_urls,
                    existing_rows, query_idx, resp, all_repos, issued, rate_limited,
                    prev_section, prev_rate_limited, call >>

\* Lines 216-221: the two outputs, written when GITHUB_OUTPUT names a file.
EmitOutputs ==
    /\ pc = "emitting"
    /\ \E output_file_set \in BOOLEAN :
          github_output' = IF output_file_set
                           THEN github_output \o RunSummary(new_repos)
                           ELSE github_output
    /\ pc' = "done"
    /\ UNCHANGED << readme, upstream, run, readme_content, existing_urls, existing_rows,
                    query_idx, resp, all_repos, new_repos, all_rows, new_section,
                    issued, rate_limited, prev_section, prev_rate_limited, call >>

\* The script is started again on the document it wrote, with the same
\* upstream data and a new output file.
SecondRun ==
    /\ pc = "done"
    /\ run = "first"
    /\ run' = "second"
    /\ prev_section' = new_section
    /\ prev_rate_limited' = rate_limited
    /\ pc' = "start"
    /\ readme_content' = ""
    /\ existing_urls' = {}
    /\ existing_rows' = <<>>
    /\ query_idx' = 1
    /\ resp' = NoResponse
    /\ all_repos' = <<>>
    /\ new_repos' = <<>>
    /\ all_rows' = <<>>
    /\ new_section' = ""
    /\ issued' = <<>>
    /\ rate_limited' = FALSE
    /\ github_output' = ""
    /\ UNCHANGED << readme, upstream, call >>

Next ==
    \/ ReadReadme
    \/ SearchSucceeds
    \/ SearchRateLimited
    \/ SearchFails
    \/ UpdateReadme
    \/ EmitOutputs
    \/ SecondRun

Spec == Init /\ [][Next]_vars

\* The statements of main run one after the other: the interpreter never
\* stops in front of a statement that can run.  ReadReadme and UpdateReadme
\* can run whenever their guards hold, so that their fairness is stated on
\* their guards and their move of pc.
ReadReadmeStep ==
    /\ pc = "start"
    /\ pc' = "searching"

UpdateReadmeStep ==
    /\ pc = "searching"
    /\ query_idx > Len(SEARCH_QUERIES)
    /\ pc' = "emitting"

FairSpec ==
    /\ Spec
    /\ WF_pc(ReadReadmeStep)
    /\ WF_vars(SearchSucceeds \/ SearchRateLimited \/ SearchFails)
    /\ WF_pc(UpdateReadmeStep)
    /\ WF_vars(EmitOutputs)

(***************************************************************************)
(* Single calls of the row functions, on enumerated arguments.             *)
(***************************************************************************)
RECURSIVE Pad(_, _)
Pad(c, n) == IF n = 0 THEN "" ELSE Pad(c, n - 1) \o c

DescriptionInputs ==
    {<<>>} \cup
    { << before \o Pad(c, n) \o after >> :
        n \in 0..MaxDescLen, c \in {"x", "|"}, before \in {"", " "}, after \in {"", "...", " "} }

RowInputs ==
    { RowFoo, RowBaz, RowFooAgain, RowOpen, RowNoStars, RowBarWide,
      "| plain | text | 5 |", "| [e](https://github.com/e/nul) |  | -3 |", "|" }

FetchedInputs ==
    { ReposByUrl(MergeRepos(<<>>, items)) :
        items \in { <<>>, ItemsBarFoo, ItemsFooLater, ItemsForkArchived, ItemsNulBar } }

FnInit ==
    /\ readme = ""
    /\ upstream = UpstreamOf(<<>>, <<>>)
    /\ run = "first"
    /\ Fresh
    /\ prev_section = ""
    /\ prev_rate_limited = FALSE
    /\ call = NoCall

MainUnchanged ==
    UNCHANGED << readme, github_output, upstream, run, pc, readme_content, existing_urls,
                 existing_rows, query_idx, resp, all_repos, new_repos, all_rows,
                 new_section, issued, rate_limited, prev_section, prev_rate_limited >>

CallBuildTableRow ==
    /\ call = NoCall
    /\ \E description \in DescriptionInputs :
          LET repo == Repo("l/ong", description, 1234, FALSE, FALSE)
          IN  call' = [ fn |-> "build_table_row", repo |-> repo,
                        result |-> build_table_row(repo) ]
    /\ MainUnchanged

CallUpdateRowStars ==
    /\ call = NoCall
    /\ \E row \in RowInputs, repos_by_url \in FetchedInputs :
          call' = [ fn |-> "update_row_stars", row |-> row, repos_by_url |-> repos_by_url,
                    result |-> update_row_stars(row, repos_by_url) ]
    /\ MainUnchanged

CallExtractStars ==
    /\ call = NoCall
    /\ \E row \in RowInputs :
          call' = [ fn |-> "extract_stars_from_row", row |-> row,
                    result |-> extract_stars_from_row(row) ]
    /\ MainUnchanged

FnNext ==
    \/ CallBuildTableRow
    \/ CallUpdateRowStars
    \/ CallExtractStars

FnSpec == FnInit /\ [][FnNext]_vars

(***************************************************************************)
(* Properties.                                                             *)
(***************************************************************************)
\* The pipe-delimited parts of a row: part 2 is the name link, part 3 the
\* description, part 4 the stars (parts[1], parts[2], parts[3] in Python).
Parts(row) == Split(row, "|")

\* The description column of a built row, without its one-space padding.
ShownDescription(row) == Sub(Parts(row)[3], 2, Len(Parts(row)[3]) - 1)

\* A description with its pipes replaced and its ends stripped.
Sanitized(d) == Strip(Replace(DescriptionOrEmpty(d), "|", "-"))

Ellipsis == "..."

\* C9 (as amended): the description rendered by build_table_row has no pipe
\* and at most DESC_MAX characters; when the sanitized description is longer
\* than DESC_MAX it is the first DESC_KEEP characters followed by "...", and
\* otherwise it is the sanitized description itself.
C9_DescriptionRendered ==
    call.fn = "build_table_row" =>
        LET shown == ShownDescription(call.result)
            clean == Sanitized(call.repo.description)
        IN  /\ Len(Parts(call.result)) = 5
            /\ Find(shown, "|") = -1
            /\ Len(shown) <= DESC_MAX
            /\ Len(clean) > DESC_MAX =>
                  /\ Len(shown) = DESC_MAX
                  /\ EndsWith(shown, Ellipsis)
                  /\ SliceTo(shown, DESC_KEEP) = SliceTo(clean, DESC_KEEP)
            /\ Len(clean) <= DESC_MAX => shown = clean

\* C9 as stated: ... and the rendered description ends with "..." exactly
\* when the sanitized description was longer than DESC_MAX characters.
C9_EllipsisExactlyWhenCut ==
    call.fn = "build_table_row" =>
        LET shown == ShownDescription(call.result)
            clean == Sanitized(call.repo.description)
        IN  /\ Find(shown, "|") = -1
            /\ Len(shown) <= DESC_MAX
            /\ EndsWith(shown, Ellipsis) <=> Len(clean) > DESC_MAX

\* A long description with a pipe in it has been rendered.
C9_Witness ==
    /\ call.fn = "build_table_row"
    /\ Len(Sanitized(call.repo.description)) > DESC_MAX
    /\ Find(DescriptionOrEmpty(call.repo.description), "|") # -1
    /\ EndsWith(ShownDescription(call.result), Ellipsis)

\* Whether update_row_stars finds the row's URL in the fetched data.
Matched(row, repos_by_url) == HasUrl(row) /\ RowUrl(row) \in DOMAIN repos_by_url

\* C4 (as amended): for a row whose URL is in the fetched data and that has
\* at least five pipe-delimited parts, update_row_stars changes the star part
\* to the fetched count and no other part; every other row is returned
\* unchanged.
C4_OnlyStarsChange ==
    call.fn = "update_row_stars" =>
        LET before == Parts(call.row)
            after == Parts(call.result)
        IN  IF Matched(call.row, call.repos_by_url) /\ Len(before) >= 5
            THEN /\ Len(after) = Len(before)
                 /\ \A k \in 1..Len(before) : k # 4 => after[k] = before[k]
                 /\ Strip(after[4]) =
                        IntToStr(call.repos_by_url[RowUrl(call.row)].stargazers_count)
            ELSE call.result = call.row

\* C4 as stated: every row whose URL is in the fetched data gets the fetched
\* star count in its star field, its name link and description unchanged; a
\* row whose URL is not fetched is returned unchanged.
C4_EveryMatchedRowRefreshed ==
    call.fn = "update_row_stars" =>
        LET before == Parts(call.row)
            after == Parts(call.result)
        IN  IF Matched(call.row, call.repos_by_url)
            THEN /\ Len(after) >= 4
                 /\ after[2] = before[2]
                 /\ after[3] = before[3]
                 /\ Strip(after[4]) =
                        IntToStr(call.repos_by_url[RowUrl(call.row)].stargazers_count)
            ELSE call.result = call.row

\* A listed row has had its stars replaced by a different count.
C4_Witness ==
    /\ call.fn = "update_row_stars"
    /\ Matched(call.row, call.repos_by_url)
    /\ Len(Parts(call.row)) >= 5
    /\ call.result # call.row

Range(seq) == { seq[k] : k \in 1..Len(seq) }

\* Every canonical URL that occurs in a row.
AllUrls(row) == { CanonicalMatch(row, i) : i \in UrlMatchStarts(row) }

\* No canonical URL occurs in two of the rows.
DisjointUrls(rows) ==
    \A i, j \in 1..Len(rows) : i < j => AllUrls(rows[i]) \cap AllUrls(rows[j]) = {}

\* No two of the rows link (with their first URL) to the same canonical URL.
DistinctLinks(rows) ==
    \A i, j \in 1..Len(rows) :
        (i < j /\ HasUrl(rows[i]) /\ HasUrl(rows[j])) => RowUrl(rows[i]) # RowUrl(rows[j])

\* C1 (as amended): if no canonical URL occurs in two rows of the section
\* that was read, then after the run no two rows of the written section link
\* to the same canonical URL.
C1_NoDuplicateAdded ==
    pc = "done" => (DisjointUrls(existing_rows) => DistinctLinks(all_rows))

\* C1 as stated: after a completed run, for every input document, no
\* canonical URL occurs in more than one row of the written section.
C1_NeverDuplicate ==
    pc = "done" => DisjointUrls(all_rows)

\* A run that kept a listed row, appended a new one, and found upstream a
\* repository that was already listed.
C1_Witness ==
    /\ pc = "done"
    /\ Len(existing_rows) >= 1
    /\ DisjointUrls(existing_rows)
    /\ Len(new_repos) >= 1
    /\ \E k \in 1..Len(all_repos) :
          /\ ~all_repos[k].repo.fork
          /\ ~all_repos[k].repo.archived
          /\ CanonicalUrl(all_repos[k].repo.html_url) \in existing_urls

\* C2: the written document is the original with only the span from the
\* start marker to the end of the end marker replaced by the new section; a
\* document without such a span keeps all of its text around the new section.
C2_OutsideTextUnchanged ==
    pc \in {"emitting", "done"} =>
        LET start_idx == Find(readme_content, MARKER_START)
            end_idx == Find(readme_content, MARKER_END)
        IN  IF start_idx # -1 /\ end_idx # -1 /\ start_idx < end_idx
            THEN readme = SliceTo(readme_content, start_idx) \o new_section
                            \o SliceFrom(readme_content, end_idx + Len(MARKER_END))
            ELSE \E k \in 0..Len(readme_content) :
                    readme = SliceTo(readme_content, k) \o new_section
                               \o SliceFrom(readme_content, k)

\* C3: a second run with the same search results and no rate-limited query
\* in either run writes the section the first run wrote and finds no new
\* repository.
C3_SecondRunChangesNothing ==
    (pc \in {"emitting", "done"} /\ run = "second" /\ ~rate_limited /\ ~prev_rate_limited) =>
        /\ new_section = prev_section
        /\ Len(new_repos) = 0

Excluded(repo) ==
    repo.fork \/ repo.archived \/ CanonicalUrl(repo.html_url) \in existing_urls

\* The line of the new_services output for a repository.
ServiceLine(repo) == "- [" \o repo.full_name \o "]("

\* C5: a fetched repository is left out of new_repos, of the appended rows
\* and of the emitted summary exactly when it is a fork, archived or already
\* listed; and a listed row is refreshed from its repository whether or not
\* the repository is left out.
C5_NewExactlyWhenNotExcluded ==
    pc \in {"emitting", "done"} =>
        LET fetched == { all_repos[k].repo : k \in 1..Len(all_repos) }
        IN  /\ \A repo \in fetched : (repo \in Range(new_repos)) <=> ~Excluded(repo)
            /\ Len(new_repos) = Cardinality({ repo \in fetched : ~Excluded(repo) })
            /\ Len(all_rows) = Len(existing_rows) + Len(new_repos)
            /\ \A repo \in fetched :
                  ~Excluded(repo) => build_table_row(repo) \in Range(all_rows)
            /\ github_output # "" =>
                  /\ StartsWith(github_output, "new_count=" \o
                        IntToStr(Cardinality({ repo \in fetched : ~Excluded(repo) })) \o "\n")
                  /\ \A repo \in fetched :
                        (Find(github_output, ServiceLine(repo)) # -1) <=> ~Excluded(repo)
            /\ \A repo \in fetched : \A k \in 1..Len(existing_rows) :
                  ( /\ HasUrl(existing_rows[k])
                    /\ RowUrl(existing_rows[k]) = CanonicalUrl(repo.html_url)
                    /\ Len(Parts(existing_rows[k])) >= 5 ) =>
                      \E row \in Range(all_rows) :
                          /\ Parts(row)[2] = Parts(existing_rows[k])[2]
                          /\ Strip(Parts(row)[4]) = IntToStr(repo.stargazers_count)

\* A run with a fork, an archived repository that is listed, and a new
\* repository, whose summary was emitted.
C5_Witness ==
    /\ pc = "done"
    /\ github_output # ""
    /\ Len(new_repos) >= 1
    /\ \E k \in 1..Len(all_repos) : all_repos[k].repo.fork
    /\ \E k \in 1..Len(all_repos) :
          /\ all_repos[k].repo.archived
          /\ CanonicalUrl(all_repos[k].repo.html_url) \in existing_urls

\* The rows of the section a run wrote.
WrittenRows == parse_table_rows(new_section)

\* C6: after a completed run the rows of the written section are in
\* non-increasing order of the stars extracted from their third column (0
\* when it does not parse).
C6_SortedByStars ==
    pc = "done" =>
        LET rows == WrittenRows
            stars == [ k \in 1..Len(rows) |-> extract_stars_from_row(rows[k]) ]
        IN  \A i, j \in 1..Len(rows) : i < j => stars[i] >= stars[j]

\* A written section whose rows the sort has reordered, one of them with a
\* star column that is no number.
C6_Witness ==
    /\ pc = "done"
    /\ Len(WrittenRows) >= 2
    /\ all_rows # UpdatedRows(existing_rows, all_repos) \o NewRows(new_repos)
    /\ \E k \in 1..Len(WrittenRows) :
          /\ Len(Parts(WrittenRows[k])) >= 4
          /\ ~IsInt(Replace(Strip(Parts(WrittenRows[k])[4]), ",", ""))

\* A step that sends one query.
QueryStep == Len(issued') = Len(issued) + 1

\* C7: a rate-limited query adds nothing and the loop goes on to the next
\* query; the queries are sent in the order of SEARCH_QUERIES, all of them
\* before the document is written; and a run with a rate-limited query goes
\* on to its end (or to the failure of a later query).
C7_RateLimitSkipsQuery ==
    /\ [][ (QueryStep /\ resp'.status = HTTP_FORBIDDEN) =>
              /\ all_repos' = all_repos
              /\ query_idx' = query_idx + 1
              /\ pc' = "searching" ]_vars
    /\ [](issued = Take(SEARCH_QUERIES, Len(issued)))
    /\ [](pc \in {"emitting", "done"} => issued = SEARCH_QUERIES)
    /\ ((pc = "searching" /\ rate_limited) ~>
            (pc = "done" \/ (pc = "aborted" /\ resp.status \in FailureStatuses)))

\* A run with a rate-limited query that collected repositories and ended.
C7_Witness ==
    /\ pc = "done"
    /\ rate_limited
    /\ Len(all_repos) > 0
    /\ github_output # ""

\* C8: a query step keeps every stored record as it is, and adds for each
\* new key the first item of the response with that key.
C8_FirstOccurrenceWins ==
    [][ (QueryStep /\ pc' = "searching") =>
           LET items == resp'.items
               key(i) == Lower(items[i].full_name)
           IN  /\ Len(all_repos') >= Len(all_repos)
               /\ \A k \in 1..Len(all_repos) : all_repos'[k] = all_repos[k]
               /\ \A k \in (Len(all_repos) + 1)..Len(all_repos') :
                     /\ all_repos'[k].key \notin Keys(all_repos)
                     /\ \E i \in 1..Len(items) :
                           /\ key(i) = all_repos'[k].key
                           /\ all_repos'[k].repo = items[i]
                           /\ \A j \in 1..(i - 1) : key(j) # key(i)
               /\ \A i \in 1..Len(items) : key(i) \in Keys(all_repos')
               /\ \A k, l \in 1..Len(all_repos') :
                     k # l => all_repos'[k].key # all_repos'[l].key ]_vars

\* A later response held another record of a stored repository, and the
\* stored record is still the earlier one.
C8_Witness ==
    /\ pc = "searching"
    /\ \E i \in 1..Len(resp.items) : \E k \in 1..Len(all_repos) :
          /\ all_repos[k].key = Lower(resp.items[i].full_name)
          /\ all_repos[k].repo # resp.items[i]
          /\ all_repos[k].repo.stargazers_count # resp.items[i].stargazers_count

\* C10: a response that is a failure other than 403 ends the run at that
\* query: the failing query is the last one sent, the document is as it was
\* read and nothing has been emitted; and the document is not written while
\* queries are still being sent.
C10_FailureAborts ==
    /\ [](resp.status \in FailureStatuses <=> pc = "aborted")
    /\ [](pc = "aborted" =>
            /\ readme = readme_content
            /\ github_output = ""
            /\ new_section = ""
            /\ issued = Take(SEARCH_QUERIES, query_idx))
    /\ [](pc = "searching" => readme = readme_content)
    /\ [][ pc = "aborted" =>
              /\ pc' = "aborted"
              /\ issued' = issued
              /\ readme' = readme
              /\ github_output' = github_output ]_vars

\* A run that failed after it had collected repositories.
C10_Witness ==
    /\ pc = "aborted"
    /\ Len(all_repos) > 0
    /\ Len(issued) < Len(SEARCH_QUERIES)

=============================================================================
